---- MODULE Spec2Model ----
(***************************************************************************)
(* Model of ccswitch.py (ClaudeAccountSwitcher): the registry document     *)
(* sequence.json, the per-account backup files configs/<n>.json and        *)
(* credentials/<n>.json, and the live configuration files of the host      *)
(* application.  One command runs to completion per step, as the program   *)
(* is invoked once per command.                                            *)
(***************************************************************************)
EXTENDS Integers, Sequences, FiniteSets, TLC

(***************************************************************************)
(* Bounds of the model.                                                    *)
(***************************************************************************)
\* largest account number the model allocates
MaxId == 2
\* at most MaxMishaps mishaps in one run: a write that fails, an edit of
\* the registry by hand
MaxMishaps == 1

Ids == 1..MaxId
\* datetime.now(): no command reads a time stamp back, and one instant
\* stands for them all
Times == {"t0"}

(***************************************************************************)
(* Python strings that the code inspects are tuples of one-character       *)
(* strings; str(), int(), str.isdigit() and str.lower() are computed.      *)
(***************************************************************************)
DigitChars == <<"0", "1", "2", "3", "4", "5", "6", "7", "8", "9">>

DigitOf(c) == CHOOSE d \in 0..9 : DigitChars[d + 1] = c

isdigit(s) == Len(s) > 0 /\ \A i \in 1..Len(s) : \E d \in 0..9 : DigitChars[d + 1] = s[i]

RECURSIVE int(_)
int(s) == IF Len(s) = 1 THEN DigitOf(s[1])
          ELSE 10 * int(SubSeq(s, 1, Len(s) - 1)) + DigitOf(s[Len(s)])

RECURSIVE str(_)
str(n) == IF n < 10 THEN <<DigitChars[n + 1]>>
          ELSE Append(str(n \div 10), DigitChars[(n % 10) + 1])

LowerChar(c) == CASE c = "A" -> "a"
                  [] c = "B" -> "b"
                  [] c = "Y" -> "y"
                  [] c = "N" -> "n"
                  [] OTHER -> c

lower(s) == [i \in 1..Len(s) |-> LowerChar(s[i])]

(***************************************************************************)
(* Python values.  A dict whose keys the code tests is a tagged function;  *)
(* the accounts dict, which the code iterates, keeps its insertion order   *)
(* as a sequence of key/value pairs.                                       *)
(***************************************************************************)
Dict(f) == [type |-> "dict", items |-> f]
EmptyDict == Dict(<<>>)
JList(l) == [type |-> "list", elems |-> l]
JInt(n) == [type |-> "int", val |-> n]
OrderedDict(p) == [type |-> "dict", pairs |-> p]
NonDict == JList(<<0>>)
None == [type |-> "none"]

isinstance(v, t) == v.type = t
\* Python truth value of a parsed JSON value
truthy(v) == CASE v.type = "dict" -> DOMAIN v.items # {}
               [] v.type = "list" -> Len(v.elems) > 0
               [] v.type = "int" -> v.val # 0
               [] OTHER -> FALSE

\* dict.get(key, default) on a record
get(rec, key, default) == IF key \in DOMAIN rec THEN rec[key] ELSE default

DictKeys(d) == {d[i].k : i \in 1..Len(d)}
DictIndex(d, key) == CHOOSE i \in 1..Len(d) : d[i].k = key
DictSet(d, key, val) ==
    IF key \in DictKeys(d)
    THEN [d EXCEPT ![DictIndex(d, key)] = [k |-> key, v |-> val]]
    ELSE Append(d, [k |-> key, v |-> val])
DictDel(d, key) == SelectSeq(d, LAMBDA e : e.k # key)
DictGet(d, key, default) ==
    IF key \in DictKeys(d) THEN d[DictIndex(d, key)].v ELSE default

\* list membership, list.index, list.remove (first occurrence), max
InList(x, l) == \E i \in 1..Len(l) : l[i] = x
ListIndex(l, x) == CHOOSE i \in 1..Len(l) : l[i] = x /\ \A j \in 1..(i - 1) : l[j] # x
ListRemove(l, x) ==
    LET i == ListIndex(l, x)
    IN  SubSeq(l, 1, i - 1) \o SubSeq(l, i + 1, Len(l))
ListMax(l) == CHOOSE m \in {l[i] : i \in 1..Len(l)} : \A i \in 1..Len(l) : l[i] <= m

(***************************************************************************)
(* Files: a path holds no file or a JSON document.                         *)
(***************************************************************************)
Absent == [kind |-> "absent"]
File(d) == [kind |-> "json", data |-> d]
exists(f) == f.kind # "absent"
BadJson == [kind |-> "badjson"]

(***************************************************************************)
(* Config payloads of the host application.                                *)
(***************************************************************************)
OAuthA == Dict([emailAddress |-> <<"a">>, accountUuid |-> "u1", displayName |-> "Ann"])
OAuthB == Dict([emailAddress |-> <<"B">>, accountUuid |-> "u2"])

Payload(oauth, o) == Dict([oauthAccount |-> oauth, other |-> o])

\* account A as the host application left it at two moments, and account B
ValidPayloads == {Payload(OAuthA, 0), Payload(OAuthA, 1), Payload(OAuthB, 0)}

InvalidPayloads ==
    { EmptyDict,
      NonDict,
      Dict([other |-> 0]),
      Payload(NonDict, 0),
      Payload(Dict([emailAddress |-> <<"a">>]), 0),
      Payload(Dict([accountUuid |-> "u1"]), 0) }

(***************************************************************************)
(* validate_claude_config, load_config_file, save_config_file.             *)
(***************************************************************************)
\* accountUuid not required
validate_claude_config_email_only(config_data) ==
    IF ~isinstance(config_data, "dict")
    THEN [is_valid |-> FALSE, message |-> "Config data must be a dictionary"]
    ELSE IF "oauthAccount" \notin DOMAIN config_data.items
    THEN [is_valid |-> FALSE, message |-> "Config must contain 'oauthAccount' section"]
    ELSE LET oauth_account == config_data.items.oauthAccount
         IN  IF ~isinstance(oauth_account, "dict")
             THEN [is_valid |-> FALSE, message |-> "'oauthAccount' must be a dictionary"]
             ELSE IF "emailAddress" \notin DOMAIN oauth_account.items
             THEN [is_valid |-> FALSE, message |-> "oauthAccount missing required field: 'emailAddress'"]
             ELSE [is_valid |-> TRUE, message |-> "Config is valid"]

validate_claude_config(config_data) ==
    IF ~isinstance(config_data, "dict")
    THEN [is_valid |-> FALSE, message |-> "Config data must be a dictionary"]
    ELSE IF "oauthAccount" \notin DOMAIN config_data.items
    THEN [is_valid |-> FALSE, message |-> "Config must contain 'oauthAccount' section"]
    ELSE LET oauth_account == config_data.items.oauthAccount
         IN  IF ~isinstance(oauth_account, "dict")
             THEN [is_valid |-> FALSE, message |-> "'oauthAccount' must be a dictionary"]
             ELSE IF "emailAddress" \notin DOMAIN oauth_account.items
             THEN [is_valid |-> FALSE, message |-> "oauthAccount missing required field: 'emailAddress'"]
             ELSE IF "accountUuid" \notin DOMAIN oauth_account.items
             THEN [is_valid |-> FALSE, message |-> "oauthAccount missing required field: 'accountUuid'"]
             ELSE [is_valid |-> TRUE, message |-> "Config is valid"]

\* the parsed document, or None when the file is missing or not JSON
load_config_file(file) == IF file.kind = "json" THEN file.data ELSE None

\* io_fails: the temporary file cannot be written or renamed (IOError);
\* the destination is replaced only by the final rename
save_config_file(file, data, io_fails) ==
    IF ~validate_claude_config(data).is_valid THEN [ok |-> FALSE, file |-> file]
    ELSE IF io_fails THEN [ok |-> FALSE, file |-> file]
    ELSE [ok |-> TRUE, file |-> File(data)]

(***************************************************************************)
(* The registry document sequence.json: load_sequence, save_sequence.      *)
(***************************************************************************)
required_fields == <<"activeAccountNumber", "lastUpdated", "sequence", "accounts">>

RegistryDoc(active, updated, seq, accts) ==
    [activeAccountNumber |-> JInt(active), lastUpdated |-> updated,
     sequence |-> JList(seq), accounts |-> OrderedDict(accts)]

\* json.load of the file and the checks of lines 58-70; the result carries
\* the document with its three typed fields unwrapped
load_sequence(file) ==
    IF file.kind = "absent" THEN [ok |-> FALSE, error |-> "FileNotFoundError"]
    ELSE IF file.kind = "badjson" THEN [ok |-> FALSE, error |-> "JSONDecodeError"]
    ELSE IF \E i \in 1..Len(required_fields) : required_fields[i] \notin DOMAIN file.data
    THEN [ok |-> FALSE, error |-> "ValueError"]
    ELSE IF ~isinstance(file.data.activeAccountNumber, "int")
    THEN [ok |-> FALSE, error |-> "ValueError"]
    ELSE IF ~isinstance(file.data.sequence, "list")
    THEN [ok |-> FALSE, error |-> "ValueError"]
    ELSE IF ~isinstance(file.data.accounts, "dict")
    THEN [ok |-> FALSE, error |-> "ValueError"]
    ELSE [ok |-> TRUE, error |-> "",
          data |-> [activeAccountNumber |-> file.data.activeAccountNumber.val,
                    lastUpdated |-> file.data.lastUpdated,
                    sequence |-> file.data.sequence.elems,
                    accounts |-> file.data.accounts.pairs]]

\* data comes from load_sequence, so the checks of lines 92-103 pass; the
\* file is replaced by the rename of line 111 unless the write fails
save_sequence(file, data, io_fails) ==
    IF io_fails THEN [ok |-> FALSE, file |-> file]
    ELSE [ok |-> TRUE,
          file |-> File(RegistryDoc(data.activeAccountNumber, data.lastUpdated,
                                    data.sequence, data.accounts))]

\* allocation by count instead of by maximum
get_next_account_number_by_count(file) ==
    Len(load_sequence(file).data.sequence) + 1

\* allocation of the smallest free number
get_next_account_number_first_free(file) ==
    LET data == load_sequence(file).data
    IN  CHOOSE n \in 1..(Len(data.sequence) + 1) :
            /\ ~InList(n, data.sequence)
            /\ \A m \in 1..(n - 1) : InList(m, data.sequence)

get_next_account_number(file) ==
    LET data == load_sequence(file).data
    IN  IF data.sequence = <<>> THEN 1 ELSE ListMax(data.sequence) + 1

(***************************************************************************)
(* The files a command reads and writes, as one record.                    *)
(***************************************************************************)
get_claude_config(d) ==
    LET main == load_config_file(d.claude_config_file)
        alt == load_config_file(d.claude_alt_config_file)
    IN  IF exists(d.claude_config_file) /\ main # None THEN main
        ELSE IF exists(d.claude_alt_config_file) /\ alt # None THEN alt
        ELSE EmptyDict

save_claude_config(d, config_data, io_fails) ==
    LET r == save_config_file(d.claude_config_file, config_data, io_fails)
    IN  [ok |-> r.ok, disk |-> [d EXCEPT !.claude_config_file = r.file]]

\* success reported on the config copy alone
backup_account_config_only(d, account_number, config_data, credentials_data, faults) ==
    LET c == save_config_file(d.configs[account_number], config_data,
                              "configs" \in faults)
        k == save_config_file(d.credentials[account_number], credentials_data,
                              "credentials" \in faults)
    IN  [ok |-> c.ok,
         disk |-> [d EXCEPT !.configs[account_number] = c.file,
                            !.credentials[account_number] = k.file]]

\* faults: the write points of this command at which the write fails
backup_account(d, account_number, config_data, credentials_data, faults) ==
    IF account_number <= 0 THEN [ok |-> FALSE, disk |-> d]
    ELSE LET c == save_config_file(d.configs[account_number], config_data,
                                   "configs" \in faults)
             k == save_config_file(d.credentials[account_number], credentials_data,
                                   "credentials" \in faults)
         IN  [ok |-> c.ok /\ k.ok,
              disk |-> [d EXCEPT !.configs[account_number] = c.file,
                                 !.credentials[account_number] = k.file]]

(***************************************************************************)
(* The commands.  Each takes the files as found and the command's inputs   *)
(* and returns the files as left, the status, the diagnostic and the       *)
(* account number it worked on (0 when it got to none).                    *)
(***************************************************************************)
Result(d, ok, err, n) == [disk |-> d, ok |-> ok, err |-> err, number |-> n]

\* a registry that does not load replaced by an empty one
add_account_rebuilds_registry(d, t_added, t_updated, faults) ==
    LET current_config == get_claude_config(d)
        file == IF load_sequence(d.sequence_file).ok THEN d.sequence_file
                ELSE File(RegistryDoc(0, t_updated, <<>>, <<>>))
    IN  IF ~truthy(current_config) THEN Result(d, FALSE, "NoConfig", 0)
        ELSE IF ~validate_claude_config(current_config).is_valid
        THEN Result(d, FALSE, "InvalidConfig", 0)
        ELSE
        LET oauth_account == current_config.items.oauthAccount.items
            account_number == get_next_account_number(file)
            account_info == [email |-> get(oauth_account, "emailAddress", "Unknown"),
                             uuid |-> get(oauth_account, "accountUuid", "Unknown"),
                             displayName |-> get(oauth_account, "displayName", "Unknown"),
                             added |-> t_added]
            data == load_sequence(file).data
            data2 == [activeAccountNumber |-> account_number,
                      lastUpdated |-> t_updated,
                      sequence |-> Append(data.sequence, account_number),
                      accounts |-> DictSet(data.accounts, str(account_number), account_info)]
            saved == save_sequence(d.sequence_file, data2, "sequence" \in faults)
            d2 == [d EXCEPT !.sequence_file = saved.file]
            backup == backup_account(d2, account_number, current_config, current_config, faults)
        IN  IF ~saved.ok THEN Result(d, FALSE, "Exception", account_number)
            ELSE IF backup.ok THEN Result(backup.disk, TRUE, "", account_number)
            ELSE Result(backup.disk, FALSE, "BackupFailed", account_number)

add_account(d, t_added, t_updated, faults) ==
    LET current_config == get_claude_config(d)
    IN  IF ~truthy(current_config) THEN Result(d, FALSE, "NoConfig", 0)
        ELSE IF ~validate_claude_config(current_config).is_valid
        THEN Result(d, FALSE, "InvalidConfig", 0)
        ELSE IF ~load_sequence(d.sequence_file).ok
        THEN Result(d, FALSE, "Exception", 0)
        ELSE
        LET oauth_account == current_config.items.oauthAccount.items
            account_number == get_next_account_number(d.sequence_file)
            account_info == [email |-> get(oauth_account, "emailAddress", "Unknown"),
                             uuid |-> get(oauth_account, "accountUuid", "Unknown"),
                             displayName |-> get(oauth_account, "displayName", "Unknown"),
                             added |-> t_added]
            data == load_sequence(d.sequence_file).data
            data2 == [activeAccountNumber |-> account_number,
                      lastUpdated |-> t_updated,
                      sequence |-> Append(data.sequence, account_number),
                      accounts |-> DictSet(data.accounts, str(account_number), account_info)]
            saved == save_sequence(d.sequence_file, data2, "sequence" \in faults)
            d2 == [d EXCEPT !.sequence_file = saved.file]
            backup == backup_account(d2, account_number, current_config, current_config, faults)
        IN  IF ~saved.ok THEN Result(d, FALSE, "Exception", account_number)
            ELSE IF backup.ok THEN Result(backup.disk, TRUE, "", account_number)
            ELSE Result(backup.disk, FALSE, "BackupFailed", account_number)

\* lines 323-335 and 448-460: the account number a target names, or
\* NoAccount (None)
NoAccount == -1

find_account(data, target_account) ==
    IF isdigit(target_account)
    THEN IF InList(int(target_account), data.sequence) THEN int(target_account)
         ELSE NoAccount
    ELSE LET matches == {i \in 1..Len(data.accounts) :
                            lower(get(data.accounts[i].v, "emailAddress", <<>>))
                                = lower(target_account)}
         IN  IF matches = {} THEN NoAccount
             ELSE int(data.accounts[CHOOSE i \in matches : \A j \in matches : i <= j].k)

\* lines 376-384: best-effort backup of the live config under the active
\* account number
backup_current(d, data, faults) ==
    LET current_config == get_claude_config(d)
        current_account_num == data.activeAccountNumber
    IN  IF truthy(current_config) /\ current_account_num > 0
        THEN backup_account(d, current_account_num, current_config, current_config,
                            faults).disk
        ELSE d

\* the registry written before the live config
apply_switch_registry_first(d, data, account_number, target_config, t, faults) ==
    LET data2 == [data EXCEPT !.activeAccountNumber = account_number,
                              !.lastUpdated = t]
        saved == save_sequence(d.sequence_file, data2, "sequence" \in faults)
        d2 == [d EXCEPT !.sequence_file = saved.file]
        applied == save_claude_config(d2, target_config, "claude_config" \in faults)
    IN  IF ~saved.ok THEN Result(d, FALSE, "SaveSequenceFailed", account_number)
        ELSE IF ~applied.ok
        THEN Result(applied.disk, FALSE, "SaveConfigFailed", account_number)
        ELSE Result(applied.disk, TRUE, "", account_number)

\* lines 386-398: write the live config, then the registry
apply_switch(d, data, account_number, target_config, t, faults) ==
    LET applied == save_claude_config(d, target_config, "claude_config" \in faults)
        data2 == [data EXCEPT !.activeAccountNumber = account_number,
                              !.lastUpdated = t]
        saved == save_sequence(applied.disk.sequence_file, data2, "sequence" \in faults)
    IN  IF ~applied.ok THEN Result(applied.disk, FALSE, "SaveConfigFailed", account_number)
        ELSE IF ~saved.ok
        THEN Result(applied.disk, FALSE, "SaveSequenceFailed", account_number)
        ELSE Result([applied.disk EXCEPT !.sequence_file = saved.file], TRUE, "",
                    account_number)

\* the live config backed up before the target's backup is looked at
switch_to_account_backup_first(d, target_account, running, response, t, faults) ==
    IF ~load_sequence(d.sequence_file).ok THEN Result(d, FALSE, "LoadFailed", 0)
    ELSE
    LET data == load_sequence(d.sequence_file).data
        account_number == find_account(data, target_account)
        d2 == backup_current(d, data, faults)
    IN  IF account_number = NoAccount THEN Result(d, FALSE, "NotFound", 0)
        ELSE IF ~exists(d.configs[account_number])
        THEN Result(d2, FALSE, "MissingBackup", account_number)
        ELSE IF running /\ lower(response) # <<"y">>
        THEN Result(d2, FALSE, "Cancelled", account_number)
        ELSE
        LET target_config == load_config_file(d.configs[account_number])
        IN  IF target_config = None
            THEN Result(d2, FALSE, "LoadConfigFailed", account_number)
            ELSE IF ~validate_claude_config(target_config).is_valid
            THEN Result(d2, FALSE, "InvalidConfig", account_number)
            ELSE apply_switch(d2, data, account_number, target_config, t, faults)

\* a failed backup of the outgoing account ends the switch
switch_to_account_backup_fatal(d, target_account, running, response, t, faults) ==
    IF ~load_sequence(d.sequence_file).ok THEN Result(d, FALSE, "LoadFailed", 0)
    ELSE
    LET data == load_sequence(d.sequence_file).data
        account_number == find_account(data, target_account)
    IN  IF account_number = NoAccount THEN Result(d, FALSE, "NotFound", 0)
        ELSE IF ~exists(d.configs[account_number])
        THEN Result(d, FALSE, "MissingBackup", account_number)
        ELSE IF running /\ lower(response) # <<"y">>
        THEN Result(d, FALSE, "Cancelled", account_number)
        ELSE
        LET target_config == load_config_file(d.configs[account_number])
            current_config == get_claude_config(d)
            backup == backup_account(d, data.activeAccountNumber, current_config,
                                     current_config, faults)
        IN  IF target_config = None
            THEN Result(d, FALSE, "LoadConfigFailed", account_number)
            ELSE IF ~validate_claude_config(target_config).is_valid
            THEN Result(d, FALSE, "InvalidConfig", account_number)
            ELSE IF truthy(current_config) /\ data.activeAccountNumber > 0 /\ ~backup.ok
            THEN Result(backup.disk, FALSE, "BackupFailed", account_number)
            ELSE apply_switch(backup_current(d, data, faults), data, account_number,
                              target_config, t, faults)

switch_to_account(d, target_account, running, response, t, faults) ==
    IF ~load_sequence(d.sequence_file).ok THEN Result(d, FALSE, "LoadFailed", 0)
    ELSE
    LET data == load_sequence(d.sequence_file).data
        account_number == find_account(data, target_account)
    IN  IF account_number = NoAccount THEN Result(d, FALSE, "NotFound", 0)
        ELSE IF ~exists(d.configs[account_number])
        THEN Result(d, FALSE, "MissingBackup", account_number)
        ELSE IF running /\ lower(response) # <<"y">>
        THEN Result(d, FALSE, "Cancelled", account_number)
        ELSE
        LET target_config == load_config_file(d.configs[account_number])
        IN  IF target_config = None
            THEN Result(d, FALSE, "LoadConfigFailed", account_number)
            ELSE IF ~validate_claude_config(target_config).is_valid
            THEN Result(d, FALSE, "InvalidConfig", account_number)
            ELSE apply_switch(backup_current(d, data, faults), data, account_number,
                              target_config, t, faults)

\* no wrap-around: past the last account, the last account again
next_account_no_wrap(data) ==
    LET current_active == data.activeAccountNumber
    IN  IF InList(current_active, data.sequence)
        THEN LET i == ListIndex(data.sequence, current_active)
             IN  data.sequence[IF i < Len(data.sequence) THEN i + 1 ELSE i]
        ELSE data.sequence[1]

\* lines 414-421: the next account of the cycle
next_account(data) ==
    LET current_active == data.activeAccountNumber
    IN  IF InList(current_active, data.sequence)
        THEN data.sequence[(ListIndex(data.sequence, current_active) % Len(data.sequence)) + 1]
        ELSE data.sequence[1]

switch_to_next_account(d, running, response, t, faults) ==
    IF ~load_sequence(d.sequence_file).ok THEN Result(d, FALSE, "LoadFailed", 0)
    ELSE
    LET data == load_sequence(d.sequence_file).data
    IN  IF data.sequence = <<>> THEN Result(d, FALSE, "NoAccounts", 0)
        ELSE switch_to_account(d, str(next_account(data)), running, response, t, faults)

\* the active account number left as it was
active_after_remove_kept(data, account_number, sequence2) ==
    data.activeAccountNumber

\* lines 482-489: the active account number after account_number is removed
active_after_remove(data, account_number, sequence2) ==
    IF data.activeAccountNumber = account_number
    THEN IF sequence2 # <<>> THEN sequence2[1] ELSE 0
    ELSE data.activeAccountNumber

\* the credentials copy forgotten
remove_files_config_only(d, account_number, faults) ==
    IF exists(d.configs[account_number]) /\ "unlink_config" \in faults THEN d
    ELSE [d EXCEPT !.configs[account_number] = Absent]

\* lines 500-511: the two unlinks; a failing unlink ends the clean-up
remove_files(d, account_number, faults) ==
    IF exists(d.configs[account_number]) /\ "unlink_config" \in faults THEN d
    ELSE LET d2 == [d EXCEPT !.configs[account_number] = Absent]
         IN  IF exists(d.credentials[account_number]) /\ "unlink_credentials" \in faults
             THEN d2
             ELSE [d2 EXCEPT !.credentials[account_number] = Absent]

\* no confirmation asked
remove_account_unconfirmed(d, target_account, response, t, faults) ==
    IF ~load_sequence(d.sequence_file).ok THEN Result(d, FALSE, "LoadFailed", 0)
    ELSE
    LET data == load_sequence(d.sequence_file).data
        account_number == find_account(data, target_account)
    IN  IF account_number = NoAccount THEN Result(d, FALSE, "NotFound", 0)
        ELSE
        LET sequence2 == IF InList(account_number, data.sequence)
                         THEN ListRemove(data.sequence, account_number)
                         ELSE data.sequence
            accounts2 == DictDel(data.accounts, str(account_number))
            active2 == active_after_remove(data, account_number, sequence2)
            data2 == [activeAccountNumber |-> active2, lastUpdated |-> t,
                      sequence |-> sequence2, accounts |-> accounts2]
            saved == save_sequence(d.sequence_file, data2, "sequence" \in faults)
        IN  IF ~saved.ok THEN Result(d, FALSE, "SaveSequenceFailed", account_number)
            ELSE Result(remove_files([d EXCEPT !.sequence_file = saved.file],
                                     account_number, faults),
                        TRUE, "", account_number)

remove_account(d, target_account, response, t, faults) ==
    IF ~load_sequence(d.sequence_file).ok THEN Result(d, FALSE, "LoadFailed", 0)
    ELSE
    LET data == load_sequence(d.sequence_file).data
        account_number == find_account(data, target_account)
    IN  IF account_number = NoAccount THEN Result(d, FALSE, "NotFound", 0)
        ELSE IF lower(response) # <<"y">>
        THEN Result(d, FALSE, "Cancelled", account_number)
        ELSE
        LET sequence2 == IF InList(account_number, data.sequence)
                         THEN ListRemove(data.sequence, account_number)
                         ELSE data.sequence
            accounts2 == DictDel(data.accounts, str(account_number))
            active2 == active_after_remove(data, account_number, sequence2)
            data2 == [activeAccountNumber |-> active2, lastUpdated |-> t,
                      sequence |-> sequence2, accounts |-> accounts2]
            saved == save_sequence(d.sequence_file, data2, "sequence" \in faults)
        IN  IF ~saved.ok THEN Result(d, FALSE, "SaveSequenceFailed", account_number)
            ELSE Result(remove_files([d EXCEPT !.sequence_file = saved.file],
                                     account_number, faults),
                        TRUE, "", account_number)

(***************************************************************************)
(* State: the files on disk, the last command with its outcome, and the    *)
(* number of mishaps so far.                                               *)
(***************************************************************************)
\* the invocations of the program that can be running side by side, and the
\* locals of one that is not inside add_account
Invocations == {"first", "second"}
NotRunning == [pc |-> "none", account_info |-> None, current_config |-> None,
               account_number |-> 0, data |-> None]

VARIABLES sequence_file, configs, credentials, claude_config_file,
          claude_alt_config_file, last, mishaps, invocations

vars == <<sequence_file, configs, credentials, claude_config_file,
          claude_alt_config_file, last, mishaps, invocations>>

Disk == [sequence_file |-> sequence_file, configs |-> configs,
         credentials |-> credentials, claude_config_file |-> claude_config_file,
         claude_alt_config_file |-> claude_alt_config_file]

\* the registry document as persisted
Reg == load_sequence(sequence_file).data
SeqIds(data) == {data.sequence[i] : i \in 1..Len(data.sequence)}
KeyIds(data) == {int(k) : k \in DictKeys(data.accounts)}

\* what the host application may leave in its two config files: it keeps
\* its config in ~/.claude.json, or in ~/.claude/.claude.json alone
LiveFiles == {Absent, File(Dict([other |-> 0]))} \cup {File(p) : p \in ValidPayloads}
HostLayouts == {<<f, Absent>> : f \in LiveFiles}
                  \cup {<<Absent, File(Payload(OAuthB, 0))>>}

\* command-line targets: account numbers, the email of account A in the
\* other case, an email of no account
Targets == {str(n) : n \in Ids} \cup {<<"A">>, <<"x">>}
\* is_claude_running() and the answer, asked for only when it is running
Prompts == {<<FALSE, <<"n">>>>, <<TRUE, <<"n">>>>, <<TRUE, <<"Y">>>>}
\* answers to the prompt of remove
Responses == {<<"Y">>, <<"n">>}

\* the write points of each command; one command suffers at most one failed
\* write
AddFaults == {"sequence", "configs", "credentials"}
SwitchFaults == {"configs", "credentials", "claude_config", "sequence"}
RemoveFaults == {"sequence", "unlink_config", "unlink_credentials"}
FaultSets(points) == {{}} \cup {{f} : f \in points}

\* __init__ on first use: empty backup directories and the registry of
\* lines 42-47
Init ==
    /\ \E t \in Times : sequence_file = File(RegistryDoc(0, t, <<>>, <<>>))
    /\ configs = [n \in Ids |-> Absent]
    /\ credentials = [n \in Ids |-> Absent]
    /\ \E l \in HostLayouts : /\ claude_config_file = l[1]
                               /\ claude_alt_config_file = l[2]
    /\ last = [op |-> "init", ok |-> TRUE, err |-> "", number |-> 0, target |-> <<>>]
    /\ mishaps = 0
    /\ invocations = [p \in Invocations |-> NotRunning]

\* a command has run with the writes in faults failing: the files are as it
\* left them; r0 is what it does when no write fails, and a failed write is
\* one that made a difference
Ran(op, tg, r, r0, faults) ==
    /\ faults # {} => (mishaps < MaxMishaps /\ r # r0)
    /\ mishaps' = IF faults = {} THEN mishaps ELSE mishaps + 1
    /\ sequence_file' = r.disk.sequence_file
    /\ configs' = r.disk.configs
    /\ credentials' = r.disk.credentials
    /\ claude_config_file' = r.disk.claude_config_file
    /\ claude_alt_config_file' = r.disk.claude_alt_config_file
    /\ last' = [op |-> op, ok |-> r.ok, err |-> r.err, number |-> r.number, target |-> tg]
    /\ UNCHANGED invocations

\* the model stops allocating at MaxId
CanAllocate ==
    load_sequence(sequence_file).ok => get_next_account_number(sequence_file) <= MaxId

AddAccount ==
    /\ CanAllocate
    /\ \E t_added \in Times, t_updated \in Times, faults \in FaultSets(AddFaults) :
           Ran("add_account", <<>>, add_account(Disk, t_added, t_updated, faults),
               add_account(Disk, t_added, t_updated, {}), faults)

SwitchToAccount ==
    \E target \in Targets, p \in Prompts, t \in Times,
       faults \in FaultSets(SwitchFaults) :
        Ran("switch_to_account", target,
            switch_to_account(Disk, target, p[1], p[2], t, faults),
            switch_to_account(Disk, target, p[1], p[2], t, {}), faults)

SwitchToNextAccount ==
    \E p \in Prompts, t \in Times, faults \in FaultSets(SwitchFaults) :
        Ran("switch_to_next_account", <<>>,
            switch_to_next_account(Disk, p[1], p[2], t, faults),
            switch_to_next_account(Disk, p[1], p[2], t, {}), faults)

RemoveAccount ==
    \E target \in Targets, response \in Responses,
       t \in Times, faults \in FaultSets(RemoveFaults) :
        Ran("remove_account", target,
            remove_account(Disk, target, response, t, faults),
            remove_account(Disk, target, response, t, {}), faults)

\* the host application rewrites its config (a login, a token refresh)
HostWritesConfig ==
    /\ \E l \in HostLayouts : /\ claude_config_file' = l[1]
                               /\ claude_alt_config_file' = l[2]
    /\ last' = [op |-> "host", ok |-> TRUE, err |-> "", number |-> 0, target |-> <<>>]
    /\ UNCHANGED <<sequence_file, configs, credentials, mishaps, invocations>>

Next ==
    \/ AddAccount
    \/ SwitchToAccount
    \/ SwitchToNextAccount
    \/ RemoveAccount
    \/ HostWritesConfig

Spec == Init /\ [][Next]_vars

\* the registry edited by hand: the active account number set to any value,
\* one that sequence does not hold included
RegistryPointerEdited ==
    /\ mishaps < MaxMishaps
    /\ mishaps' = mishaps + 1
    /\ \E a \in 0..MaxId :
           sequence_file' = File(RegistryDoc(a, Reg.lastUpdated, Reg.sequence,
                                             Reg.accounts))
    /\ last' = [op |-> "edit", ok |-> TRUE, err |-> "", number |-> 0, target |-> <<>>]
    /\ UNCHANGED <<configs, credentials, claude_config_file,
                   claude_alt_config_file, invocations>>

NextStale ==
    \/ AddAccount
    \/ SwitchToAccount
    \/ SwitchToNextAccount
    \/ RemoveAccount
    \/ HostWritesConfig
    \/ RegistryPointerEdited

SpecStale == Init /\ [][NextStale]_vars

(***************************************************************************)
(* Files damaged or edited by hand between two commands: a backup copy     *)
(* that no longer parses or no longer validates, a live config the host    *)
(* application left without a usable oauthAccount section.                 *)
(***************************************************************************)
BrokenBackups ==
    {BadJson, File(Dict([other |-> 0])),
     File(Payload(Dict([emailAddress |-> <<"a">>]), 0))}

BackupCorrupted ==
    /\ mishaps < MaxMishaps
    /\ mishaps' = mishaps + 1
    /\ \E n \in Ids, f \in BrokenBackups :
           /\ exists(configs[n])
           /\ configs' = [configs EXCEPT ![n] = f]
    /\ last' = [op |-> "edit", ok |-> TRUE, err |-> "", number |-> 0, target |-> <<>>]
    /\ UNCHANGED <<sequence_file, credentials, claude_config_file,
                   claude_alt_config_file, invocations>>

UnusableLiveFiles == {BadJson} \cup {File(p) : p \in InvalidPayloads}

LiveConfigCorrupted ==
    /\ mishaps < MaxMishaps
    /\ mishaps' = mishaps + 1
    /\ claude_config_file' \in UnusableLiveFiles
    /\ claude_alt_config_file' = Absent
    /\ last' = [op |-> "edit", ok |-> TRUE, err |-> "", number |-> 0, target |-> <<>>]
    /\ UNCHANGED <<sequence_file, configs, credentials, invocations>>

NextTampered ==
    \/ AddAccount
    \/ SwitchToAccount
    \/ SwitchToNextAccount
    \/ RemoveAccount
    \/ HostWritesConfig
    \/ BackupCorrupted
    \/ LiveConfigCorrupted

SpecTampered == Init /\ [][NextTampered]_vars

(***************************************************************************)
(* Writes, step by step, and a process that stops in the middle of one.    *)
(* write_in_place is the write of lines 41-47: open(path, 'w') truncates   *)
(* the path, json.dump and the close complete the document.                *)
(* write_and_replace is the write of lines 106-111 and 173-178: the        *)
(* temporary sibling is opened, written, and renamed over the path.  Both  *)
(* give what the path holds after steps_done steps.                        *)
(***************************************************************************)
write_in_place(file, doc, steps_done) ==
    IF steps_done = 0 THEN file
    ELSE IF steps_done = 1 THEN BadJson
    ELSE File(doc)

write_and_replace(file, doc, steps_done) ==
    IF steps_done < 3 THEN file ELSE File(doc)

\* a home directory in which the program never ran
InitFresh ==
    /\ sequence_file = Absent
    /\ configs = [n \in Ids |-> Absent]
    /\ credentials = [n \in Ids |-> Absent]
    /\ \E l \in HostLayouts : /\ claude_config_file = l[1]
                               /\ claude_alt_config_file = l[2]
    /\ last = [op |-> "init", ok |-> TRUE, err |-> "", number |-> 0, target |-> <<>>]
    /\ mishaps = 0
    /\ invocations = [p \in Invocations |-> NotRunning]

\* __init__ finds no registry and writes one; the process may stop before
\* the write is complete
Construct ==
    /\ ~exists(sequence_file)
    /\ \E t \in Times, steps_done \in 0..2 :
           /\ steps_done < 2 => mishaps < MaxMishaps
           /\ mishaps' = IF steps_done < 2 THEN mishaps + 1 ELSE mishaps
           /\ sequence_file' = write_in_place(sequence_file,
                                              RegistryDoc(0, t, <<>>, <<>>), steps_done)
           /\ last' = [op |-> "__init__", ok |-> steps_done = 2, err |-> "",
                       number |-> 0, target |-> <<>>]
    /\ UNCHANGED <<configs, credentials, claude_config_file, claude_alt_config_file, invocations>>

\* add_account stops inside one of its three writes: the registry (line
\* 299), the config copy (line 220), the credentials copy (line 224)
AddAccountStopped ==
    /\ exists(sequence_file)
    /\ CanAllocate
    /\ mishaps < MaxMishaps
    /\ mishaps' = mishaps + 1
    /\ \E t \in Times, point \in AddFaults, steps_done \in 0..2 :
           LET r == add_account(Disk, t, t, {})
               n == r.number
           IN  /\ r.ok
               /\ sequence_file' =
                      IF point = "sequence"
                      THEN write_and_replace(sequence_file, r.disk.sequence_file.data,
                                             steps_done)
                      ELSE r.disk.sequence_file
               /\ configs' =
                      IF point = "sequence" THEN configs
                      ELSE IF point = "configs"
                      THEN [configs EXCEPT ![n] =
                               write_and_replace(@, r.disk.configs[n].data, steps_done)]
                      ELSE r.disk.configs
               /\ credentials' =
                      IF point = "credentials"
                      THEN [credentials EXCEPT ![n] =
                               write_and_replace(@, r.disk.credentials[n].data,
                                                 steps_done)]
                      ELSE credentials
               /\ last' = [op |-> "stopped", ok |-> FALSE, err |-> point,
                           number |-> n, target |-> <<>>]
    /\ UNCHANGED <<claude_config_file, claude_alt_config_file, invocations>>

\* every invocation runs __init__ first, so a command finds a registry file
NextCrash ==
    \/ Construct
    \/ AddAccountStopped
    \/ (exists(sequence_file) /\ AddAccount)
    \/ (exists(sequence_file) /\ SwitchToAccount)
    \/ (exists(sequence_file) /\ SwitchToNextAccount)
    \/ (exists(sequence_file) /\ RemoveAccount)
    \/ HostWritesConfig

SpecCrash == InitFresh /\ [][NextCrash]_vars

(***************************************************************************)
(* A registry file that load_sequence rejects: not JSON, one of the four   *)
(* fields missing, one of the three typed fields of another type.          *)
(***************************************************************************)
without(rec, field) == [f \in (DOMAIN rec) \ {field} |-> rec[f]]

BadRegistries(doc) ==
    {BadJson}
        \cup {File(without(doc, required_fields[i])) : i \in 1..Len(required_fields)}
        \cup {File([doc EXCEPT !.activeAccountNumber = JList(<<>>)]),
              File([doc EXCEPT !.sequence = JInt(0)]),
              File([doc EXCEPT !.accounts = JList(<<>>)])}

\* the registry file damaged or edited by hand between two commands
RegistryCorrupted ==
    /\ mishaps < MaxMishaps
    /\ mishaps' = mishaps + 1
    /\ load_sequence(sequence_file).ok
    /\ sequence_file' \in BadRegistries(sequence_file.data)
    /\ last' = [op |-> "edit", ok |-> TRUE, err |-> "", number |-> 0, target |-> <<>>]
    /\ UNCHANGED <<configs, credentials, claude_config_file,
                   claude_alt_config_file, invocations>>

NextBadRegistry ==
    \/ AddAccount
    \/ SwitchToAccount
    \/ SwitchToNextAccount
    \/ RemoveAccount
    \/ HostWritesConfig
    \/ RegistryCorrupted

SpecBadRegistry == Init /\ [][NextBadRegistry]_vars

(***************************************************************************)
(* save_sequence on any Python document, and json.dump / json.load of      *)
(* lines 108 and 56.  In the document handed to save_sequence a key of     *)
(* accounts is a str or an int; json.dump writes every key of an object as *)
(* a string, and json.load returns every key as a str.                     *)
(***************************************************************************)
StrKey(s) == [type |-> "str", val |-> s]
IntKey(n) == [type |-> "int", val |-> n]

json_key(k) == IF k.type = "int" THEN str(k.val) ELSE k.val

\* the JSON document written for the Python document data
json_dump(data) ==
    [f \in DOMAIN data |->
        IF f = "accounts" /\ data[f].type = "dict"
        THEN OrderedDict([i \in 1..Len(data[f].pairs) |->
                             [k |-> json_key(data[f].pairs[i].k),
                              v |-> data[f].pairs[i].v]])
        ELSE data[f]]

\* digit keys read back as integers
python_doc_int_keys(data) ==
    [activeAccountNumber |-> JInt(data.activeAccountNumber),
     lastUpdated |-> data.lastUpdated,
     sequence |-> JList(data.sequence),
     accounts |-> OrderedDict([i \in 1..Len(data.accounts) |->
                                 [k |-> IF isdigit(data.accounts[i].k)
                                        THEN IntKey(int(data.accounts[i].k))
                                        ELSE StrKey(data.accounts[i].k),
                                  v |-> data.accounts[i].v]])]

\* the Python document that load_sequence returns
python_doc(data) ==
    [activeAccountNumber |-> JInt(data.activeAccountNumber),
     lastUpdated |-> data.lastUpdated,
     sequence |-> JList(data.sequence),
     accounts |-> OrderedDict([i \in 1..Len(data.accounts) |->
                                 [k |-> StrKey(data.accounts[i].k),
                                  v |-> data.accounts[i].v]])]

\* lines 92-103
save_sequence_accepts(data) ==
    /\ \A i \in 1..Len(required_fields) : required_fields[i] \in DOMAIN data
    /\ isinstance(data.activeAccountNumber, "int")
    /\ isinstance(data.sequence, "list")
    /\ isinstance(data.accounts, "dict")

\* lines 88-118 on any document
save_sequence_validated(file, data, io_fails) ==
    IF ~save_sequence_accepts(data) THEN [ok |-> FALSE, file |-> file]
    ELSE IF io_fails THEN [ok |-> FALSE, file |-> file]
    ELSE [ok |-> TRUE, file |-> File(json_dump(data))]

\* documents handed to save_sequence
Metadata(n) == [email |-> <<"a">>, uuid |-> "u1", displayName |-> "Ann", added |-> "t0"]

AccountKeys(n) == {<<>>, <<[k |-> StrKey(str(n)), v |-> Metadata(n)]>>,
                   <<[k |-> IntKey(n), v |-> Metadata(n)]>>}

SaveInputs ==
    LET docs == {[activeAccountNumber |-> JInt(a), lastUpdated |-> t,
                  sequence |-> JList(q), accounts |-> OrderedDict(p1 \o p2)] :
                     a \in 0..MaxId, t \in Times,
                     q \in {<<>>, <<1>>, <<1, 2>>, <<2, 1>>},
                     p1 \in AccountKeys(1), p2 \in AccountKeys(2)}
        doc == RegistryDoc(0, "t0", <<>>, <<>>)
    IN  docs \cup {without(doc, "sequence"),
                   [doc EXCEPT !.activeAccountNumber = StrKey(<<"1">>)],
                   [doc EXCEPT !.accounts = JList(<<>>)]}

SaveSequence ==
    /\ \E data \in SaveInputs :
           LET r == save_sequence_validated(sequence_file, data, FALSE)
           IN  /\ sequence_file' = r.file
               /\ last' = [op |-> "save_sequence", ok |-> r.ok, err |-> "",
                           number |-> 0, target |-> <<>>, data |-> data]
    /\ UNCHANGED <<configs, credentials, claude_config_file,
                   claude_alt_config_file, mishaps, invocations>>

LoadSequence ==
    /\ last.op = "save_sequence" /\ last.ok
    /\ LET l == load_sequence(sequence_file)
       IN  last' = [op |-> "load_sequence", ok |-> l.ok, err |-> l.error,
                    number |-> 0, target |-> <<>>, data |-> last.data,
                    loaded |-> IF l.ok THEN python_doc(l.data) ELSE None]
    /\ UNCHANGED <<sequence_file, configs, credentials, claude_config_file,
                   claude_alt_config_file, mishaps, invocations>>

NextRoundTrip ==
    \/ SaveSequence
    \/ LoadSequence

SpecRoundTrip == Init /\ [][NextRoundTrip]_vars

(***************************************************************************)
(* Two invocations of add-current side by side.  No lock is taken, so the  *)
(* file accesses of add_account are steps of their own: the registry read  *)
(* inside get_next_account_number (line 278), the second registry read     *)
(* with the changes made to what it returned (lines 289-296), the registry *)
(* save (line 299) and the two backup writes (lines 220 and 224).  Each    *)
(* invocation keeps its locals between its steps.                          *)
(***************************************************************************)
\* the entry added to what the second read returned, without its metadata
registered_sequence_only(data, account_number, account_info, t) ==
    [activeAccountNumber |-> account_number,
     lastUpdated |-> t,
     sequence |-> Append(data.sequence, account_number),
     accounts |-> data.accounts]

\* lines 292-296: the changes add_account makes to the registry it loaded
registered(data, account_number, account_info, t) ==
    [activeAccountNumber |-> account_number,
     lastUpdated |-> t,
     sequence |-> Append(data.sequence, account_number),
     accounts |-> DictSet(data.accounts, str(account_number), account_info)]

Returned(ok, err, n) ==
    [op |-> "add_account", ok |-> ok, err |-> err, number |-> n, target |-> <<>>]

\* lines 259-275: the live config is read and validated
AddReadsConfig(p) ==
    /\ invocations[p].pc = "none"
    /\ CanAllocate
    /\ LET current_config == get_claude_config(Disk)
       IN  IF ~truthy(current_config)
           THEN /\ last' = Returned(FALSE, "NoConfig", 0)
                /\ UNCHANGED invocations
           ELSE IF ~validate_claude_config(current_config).is_valid
           THEN /\ last' = Returned(FALSE, "InvalidConfig", 0)
                /\ UNCHANGED invocations
           ELSE /\ invocations' = [invocations EXCEPT ![p] =
                        [NotRunning EXCEPT !.pc = "next_id",
                                           !.current_config = current_config]]
                /\ UNCHANGED last
    /\ UNCHANGED <<sequence_file, configs, credentials, claude_config_file,
                   claude_alt_config_file, mishaps>>

\* lines 278-286: the first registry read, inside get_next_account_number
AddReadsNextId(p) ==
    /\ invocations[p].pc = "next_id"
    /\ CanAllocate
    /\ IF ~load_sequence(sequence_file).ok
       THEN /\ invocations' = [invocations EXCEPT ![p] = NotRunning]
            /\ last' = Returned(FALSE, "Exception", 0)
       ELSE /\ \E t_added \in Times :
                   LET oauth_account ==
                           invocations[p].current_config.items.oauthAccount.items
                   IN  invocations' = [invocations EXCEPT ![p] =
                           [@ EXCEPT !.pc = "load",
                                     !.account_number =
                                         get_next_account_number(sequence_file),
                                     !.account_info =
                                         [email |-> get(oauth_account, "emailAddress",
                                                        "Unknown"),
                                          uuid |-> get(oauth_account, "accountUuid",
                                                       "Unknown"),
                                          displayName |-> get(oauth_account,
                                                              "displayName", "Unknown"),
                                          added |-> t_added]]]
            /\ UNCHANGED last
    /\ UNCHANGED <<sequence_file, configs, credentials, claude_config_file,
                   claude_alt_config_file, mishaps>>

\* lines 289-296: the second registry read, and the entry added to it
AddLoadsRegistry(p) ==
    /\ invocations[p].pc = "load"
    /\ IF ~load_sequence(sequence_file).ok
       THEN /\ invocations' = [invocations EXCEPT ![p] = NotRunning]
            /\ last' = Returned(FALSE, "Exception", invocations[p].account_number)
       ELSE /\ \E t_updated \in Times :
                   invocations' = [invocations EXCEPT ![p] =
                       [@ EXCEPT !.pc = "save",
                                 !.data = registered(load_sequence(sequence_file).data,
                                                     invocations[p].account_number,
                                                     invocations[p].account_info,
                                                     t_updated)]]
            /\ UNCHANGED last
    /\ UNCHANGED <<sequence_file, configs, credentials, claude_config_file,
                   claude_alt_config_file, mishaps>>

\* line 299: the registry is saved
AddSavesRegistry(p) ==
    /\ invocations[p].pc = "save"
    /\ sequence_file' = save_sequence(sequence_file, invocations[p].data, FALSE).file
    /\ invocations' = [invocations EXCEPT ![p].pc = "backup_config"]
    /\ UNCHANGED <<configs, credentials, claude_config_file, claude_alt_config_file,
                   last, mishaps>>

\* line 220: the config backup is written
AddBacksUpConfig(p) ==
    /\ invocations[p].pc = "backup_config"
    /\ LET n == invocations[p].account_number
       IN  configs' = [configs EXCEPT ![n] =
               save_config_file(@, invocations[p].current_config, FALSE).file]
    /\ invocations' = [invocations EXCEPT ![p].pc = "backup_credentials"]
    /\ UNCHANGED <<sequence_file, credentials, claude_config_file,
                   claude_alt_config_file, last, mishaps>>

\* lines 224-226 and 304-306: the credentials backup is written and add_account
\* returns
AddBacksUpCredentials(p) ==
    /\ invocations[p].pc = "backup_credentials"
    /\ LET n == invocations[p].account_number
       IN  /\ credentials' = [credentials EXCEPT ![n] =
                   save_config_file(@, invocations[p].current_config, FALSE).file]
           /\ last' = Returned(TRUE, "", n)
    /\ invocations' = [invocations EXCEPT ![p] = NotRunning]
    /\ UNCHANGED <<sequence_file, configs, claude_config_file,
                   claude_alt_config_file, mishaps>>

NextConcurrent ==
    \/ \E p \in Invocations : AddReadsConfig(p)
    \/ \E p \in Invocations : AddReadsNextId(p)
    \/ \E p \in Invocations : AddLoadsRegistry(p)
    \/ \E p \in Invocations : AddSavesRegistry(p)
    \/ \E p \in Invocations : AddBacksUpConfig(p)
    \/ \E p \in Invocations : AddBacksUpCredentials(p)
    \/ HostWritesConfig

SpecConcurrent == Init /\ [][NextConcurrent]_vars

(***************************************************************************)
(* Reading a file byte by byte.  A file written by an editor is a sequence *)
(* of bytes; text is a sequence of code points.  open(..., encoding=...)   *)
(* decodes the bytes as the codec does, and json.load parses the text.     *)
(* The documents here are JSON strings (a quoted run of characters with    *)
(* no escapes); any other text over the bytes used is not JSON.            *)
(***************************************************************************)
Bytes(b) == [kind |-> "bytes", bytes |-> b]
JStr(s) == [type |-> "str", val |-> s]
BOM == <<239, 187, 191>>

Decoded(text) == [ok |-> TRUE, text |-> text]
UnicodeDecodeError == [ok |-> FALSE, text |-> <<>>]

\* the codec utf-8: sequences of one to four bytes, no overlong forms, no
\* surrogates, nothing above U+10FFFF
RECURSIVE utf_8(_)
utf_8(b) ==
    IF b = <<>> THEN Decoded(<<>>)
    ELSE LET n == IF b[1] < 128 THEN 1
                  ELSE IF b[1] \in 194..223 THEN 2
                  ELSE IF b[1] \in 224..239 THEN 3
                  ELSE IF b[1] \in 240..244 THEN 4
                  ELSE 0
             well_formed ==
                 /\ n > 0
                 /\ Len(b) >= n
                 /\ \A i \in 2..n : b[i] \in 128..191
                 /\ b[1] = 224 => b[2] >= 160
                 /\ b[1] = 237 => b[2] <= 159
                 /\ b[1] = 240 => b[2] >= 144
                 /\ b[1] = 244 => b[2] <= 143
             code_point ==
                 CASE n = 1 -> b[1]
                   [] n = 2 -> (b[1] - 192) * 64 + (b[2] - 128)
                   [] n = 3 -> (b[1] - 224) * 4096 + (b[2] - 128) * 64 + (b[3] - 128)
                   [] n = 4 -> (b[1] - 240) * 262144 + (b[2] - 128) * 4096
                                   + (b[3] - 128) * 64 + (b[4] - 128)
             rest == utf_8(SubSeq(b, n + 1, Len(b)))
         IN  IF ~well_formed THEN UnicodeDecodeError
             ELSE IF ~rest.ok THEN UnicodeDecodeError
             ELSE Decoded(<<code_point>> \o rest.text)

\* the codec utf-8-sig: utf-8 after a leading byte-order mark is dropped
utf_8_sig(b) ==
    IF Len(b) >= 3 /\ SubSeq(b, 1, 3) = BOM THEN utf_8(SubSeq(b, 4, Len(b)))
    ELSE utf_8(b)

\* the codec latin-1: every byte is the code point of the same number
latin_1(b) == Decoded(b)

\* the codec cp1252: bytes 128..159 have code points of their own, five of
\* them none (0 here)
cp1252_high ==
    <<8364, 0, 8218, 402, 8222, 8230, 8224, 8225, 710, 8240, 352, 8249, 338, 0, 381, 0,
      0, 8216, 8217, 8220, 8221, 8226, 8211, 8212, 732, 8482, 353, 8250, 339, 0, 382, 376>>

cp1252(b) ==
    IF \E i \in 1..Len(b) : b[i] \in 128..159 /\ cp1252_high[b[i] - 127] = 0
    THEN UnicodeDecodeError
    ELSE Decoded([i \in 1..Len(b) |->
                     IF b[i] \in 128..159 THEN cp1252_high[b[i] - 127] ELSE b[i]])

decode(b, encoding) ==
    CASE encoding = "utf-8" -> utf_8(b)
      [] encoding = "utf-8-sig" -> utf_8_sig(b)
      [] encoding = "latin-1" -> latin_1(b)
      [] encoding = "cp1252" -> cp1252(b)

\* json.load of a text: a text that starts with U+FEFF is refused
\* ("Unexpected UTF-8 BOM"); a JSON string is a quote, characters other
\* than the quote, the backslash and the control characters, and a quote
JSONDecodeError == [ok |-> FALSE, data |-> None]

json_loads(text) ==
    IF text # <<>> /\ text[1] = 65279 THEN JSONDecodeError
    ELSE IF /\ Len(text) >= 2
            /\ text[1] = 34
            /\ text[Len(text)] = 34
            /\ \A i \in 2..(Len(text) - 1) : text[i] \notin {34, 92} /\ text[i] >= 32
    THEN [ok |-> TRUE, data |-> JStr(SubSeq(text, 2, Len(text) - 1))]
    ELSE JSONDecodeError

encodings_to_try == <<"utf-8", "utf-8-sig", "latin-1", "cp1252">>

\* the loop of lines 146-161 from the i-th encoding on
RECURSIVE load_config_file_from(_, _)
load_config_file_from(file, i) ==
    IF i > Len(encodings_to_try) THEN None
    ELSE IF file.kind = "absent" THEN None
    ELSE LET text == decode(file.bytes, encodings_to_try[i])
         IN  IF ~text.ok THEN load_config_file_from(file, i + 1)
             ELSE IF ~json_loads(text.text).ok THEN None
             ELSE json_loads(text.text).data

\* the loop of lines 53-86 from the i-th encoding on; a document that is a
\* JSON string holds none of the required fields
RECURSIVE load_sequence_from(_, _)
load_sequence_from(file, i) ==
    IF i > Len(encodings_to_try) THEN [ok |-> FALSE, error |-> "UnicodeDecodeError"]
    ELSE IF file.kind = "absent" THEN [ok |-> FALSE, error |-> "FileNotFoundError"]
    ELSE LET text == decode(file.bytes, encodings_to_try[i])
         IN  IF ~text.ok THEN load_sequence_from(file, i + 1)
             ELSE IF ~json_loads(text.text).ok
             THEN [ok |-> FALSE, error |-> "JSONDecodeError"]
             ELSE [ok |-> FALSE, error |-> "ValueError"]

\* what an editor can leave in a file: a JSON string holding nothing, an
\* ASCII letter, e-acute in UTF-8 or in latin-1, a byte that cp1252 does
\* not define, with or without a byte-order mark; and text that is not JSON
EditedTexts ==
    LET bodies == {<<>>, <<97>>, <<195, 169>>, <<233>>, <<129>>, <<97, 233>>}
        docs == {<<34>> \o body \o <<34>> : body \in bodies}
    IN  docs \cup {BOM \o doc : doc \in docs} \cup {<<>>, <<97>>, <<34, 97>>, BOM}

EditorWritesConfig ==
    /\ \E b \in EditedTexts : claude_config_file' = Bytes(b)
    /\ last' = [op |-> "edit", ok |-> TRUE, err |-> "", number |-> 0, target |-> <<>>]
    /\ UNCHANGED <<sequence_file, configs, credentials, claude_alt_config_file,
                   mishaps, invocations>>

EditorWritesRegistry ==
    /\ \E b \in EditedTexts : sequence_file' = Bytes(b)
    /\ last' = [op |-> "edit", ok |-> TRUE, err |-> "", number |-> 0, target |-> <<>>]
    /\ UNCHANGED <<configs, credentials, claude_config_file, claude_alt_config_file,
                   mishaps, invocations>>

LoadConfigFile ==
    /\ claude_config_file.kind = "bytes"
    /\ LET returned == load_config_file_from(claude_config_file, 1)
       IN  last' = [op |-> "load_config_file", ok |-> returned # None, err |-> "",
                    number |-> 0, target |-> <<>>, file |-> claude_config_file,
                    returned |-> returned]
    /\ UNCHANGED <<sequence_file, configs, credentials, claude_config_file,
                   claude_alt_config_file, mishaps, invocations>>

LoadSequenceFile ==
    /\ sequence_file.kind = "bytes"
    /\ LET l == load_sequence_from(sequence_file, 1)
       IN  last' = [op |-> "load_sequence", ok |-> l.ok, err |-> l.error,
                    number |-> 0, target |-> <<>>, file |-> sequence_file]
    /\ UNCHANGED <<sequence_file, configs, credentials, claude_config_file,
                   claude_alt_config_file, mishaps, invocations>>

NextDecoding ==
    \/ EditorWritesConfig
    \/ EditorWritesRegistry
    \/ LoadConfigFile
    \/ LoadSequenceFile

SpecDecoding == Init /\ [][NextDecoding]_vars

(***************************************************************************)
(* The tool used as intended: after the host application has rewritten its *)
(* config (a new login), add-current is run, and succeeds, before any      *)
(* other command.                                                          *)
(***************************************************************************)
Pending == last.op = "host" \/ (last.op = "add_account" /\ ~last.ok)

NextDisciplined ==
    \/ AddAccount
    \/ HostWritesConfig
    \/ (~Pending /\ SwitchToAccount)
    \/ (~Pending /\ SwitchToNextAccount)
    \/ (~Pending /\ RemoveAccount)

SpecDisciplined == Init /\ [][NextDisciplined]_vars

(***************************************************************************)
(* C1: after any sequence of add, switch and remove commands the registry  *)
(* loads, the set of IDs in sequence equals the set of integer-converted   *)
(* keys of accounts, sequence has no duplicate, and every ID is >= 1.      *)
(***************************************************************************)
C1_RegistryConsistent ==
    /\ load_sequence(sequence_file).ok
    /\ SeqIds(Reg) = KeyIds(Reg)
    /\ \A i, j \in 1..Len(Reg.sequence) : Reg.sequence[i] = Reg.sequence[j] => i = j
    /\ \A i \in 1..Len(Reg.sequence) : Reg.sequence[i] >= 1
    /\ Len(Reg.accounts) = Cardinality(DictKeys(Reg.accounts))

\* two accounts were added and the first one removed
C1_Witness ==
    /\ last.op = "remove_account" /\ last.ok
    /\ Reg.sequence = <<2>>
    /\ DictKeys(Reg.accounts) = {str(2)}

(***************************************************************************)
(* C2: in every persisted registry activeAccountNumber is 0 or a member    *)
(* of sequence.                                                            *)
(***************************************************************************)
C2_ActiveInSequence ==
    Reg.activeAccountNumber = 0 \/ InList(Reg.activeAccountNumber, Reg.sequence)

\* account 2 was removed and the pointer is on the remaining account
C2_Witness ==
    /\ last.op = "remove_account" /\ last.ok
    /\ Reg.sequence = <<1>>
    /\ Reg.activeAccountNumber = 1

(***************************************************************************)
(* C3: allocation never reuses an ID: the ID given to a new profile is one *)
(* more than the largest ID ever allocated, so it is strictly greater than *)
(* every ID given before, removed ones included.  The number to allocate   *)
(* next therefore never decreases, whatever command runs.                  *)
(***************************************************************************)
C3_NeverReused ==
    [][get_next_account_number(sequence_file')
           >= get_next_account_number(sequence_file)]_vars

(***************************************************************************)
(* C3 as amended: the ID given to a new profile is 1 when sequence is      *)
(* empty and otherwise one more than the largest ID in sequence at that    *)
(* moment, so it is greater than every ID then registered; an ID whose     *)
(* profile was removed is given again when no larger one is registered.    *)
(***************************************************************************)
C3_AboveRegistered ==
    CanAllocate =>
        \A faults \in FaultSets(AddFaults) :
            LET r == add_account(Disk, "t0", "t0", faults)
            IN  r.number # 0 =>
                    /\ \A n \in SeqIds(Reg) : r.number > n
                    /\ r.number = 1 \/ (r.number - 1) \in SeqIds(Reg)
                    /\ Reg.sequence = <<>> => r.number = 1

\* account 2 was removed and its number given to the next account added
C3_Witness ==
    /\ last.op = "add_account" /\ last.ok
    /\ Reg.sequence = <<1, 2>>
    /\ DictGet(Reg.accounts, str(1), [uuid |-> ""]).uuid = "u2"
    /\ DictGet(Reg.accounts, str(2), [uuid |-> ""]).uuid = "u2"
    /\ mishaps = 0

(***************************************************************************)
(* C4: a switch never leaves the live config and the registry in           *)
(* disagreement: when switch-to or switch-next returns, with success or    *)
(* failure and with any single write failing, the live config holds the    *)
(* target's payload if and only if the persisted activeAccountNumber is    *)
(* the target.  Stated for a switch that has something to change: the      *)
(* target is not the active account and its stored payload is not the      *)
(* live config already.                                                    *)
(***************************************************************************)
C4_LiveConfigAgreesWithRegistry ==
    [][ ( /\ last'.op \in {"switch_to_account", "switch_to_next_account"}
          /\ last'.number \in Ids
          /\ exists(configs[last'.number])
          /\ Reg.activeAccountNumber # last'.number
          /\ get_claude_config(Disk) # load_config_file(configs[last'.number]) )
        => ( get_claude_config(Disk') = load_config_file(configs[last'.number])
               <=> Reg'.activeAccountNumber = last'.number ) ]_vars

(***************************************************************************)
(* C5: in switch-to the registry is written only after the live config     *)
(* has been written: when the write of the live config fails the command   *)
(* fails and the registry file is as it was, and a switch-to that changes  *)
(* the registry has put the target's payload in the live config.           *)
(***************************************************************************)
C5_RegistryAfterLiveConfig ==
    [][ last'.op = "switch_to_account" =>
          /\ last'.err = "SaveConfigFailed" =>
                 ( /\ ~last'.ok
                   /\ sequence_file' = sequence_file
                   /\ claude_config_file' = claude_config_file )
          /\ sequence_file' # sequence_file =>
                 claude_config_file' = configs[last'.number] ]_vars

\* a switch from account 2 to account 1 failed at the write of the live
\* config
C5_Witness ==
    /\ last.op = "switch_to_account" /\ last.err = "SaveConfigFailed"
    /\ last.number = 1
    /\ Reg.activeAccountNumber = 2
    /\ get_claude_config(Disk) # load_config_file(configs[1])

(***************************************************************************)
(* C6: switching is idempotent on the active profile: where                *)
(* activeAccountNumber = T, T is in sequence and a valid backup for T      *)
(* exists, a successful switch-to T leaves the registry document and the   *)
(* live config as they were.                                               *)
(***************************************************************************)
C6_SwitchToActiveIdempotent ==
    [][ ( /\ last'.op = "switch_to_account" /\ last'.ok
          /\ last'.number = Reg.activeAccountNumber )
        => ( /\ sequence_file' = sequence_file
             /\ get_claude_config(Disk') = get_claude_config(Disk) ) ]_vars

(***************************************************************************)
(* C7: for switch-to and remove, a non-numeric target that equals,         *)
(* ignoring case, the email in the metadata of a registered profile        *)
(* resolves to that profile, and the command does not end in not-found.    *)
(***************************************************************************)
EmailOwners(data, target) ==
    {int(data.accounts[i].k) : i \in {j \in 1..Len(data.accounts) :
                                    lower(data.accounts[j].v.email) = lower(target)}}

C7_EmailResolves ==
    [][ ( /\ last'.op \in {"switch_to_account", "remove_account"}
          /\ ~isdigit(last'.target)
          /\ EmailOwners(Reg, last'.target) # {} )
        => ( /\ last'.err # "NotFound"
             /\ last'.number \in EmailOwners(Reg, last'.target) ) ]_vars

(***************************************************************************)
(* C8: a successful add-current with the valid live config P appends the   *)
(* newly allocated ID n at the end of sequence and changes no other entry, *)
(* records P's identity fields as the metadata of n, sets                  *)
(* activeAccountNumber to n and stores under n a backup payload equal to   *)
(* P; it returns success only if the registry save and both backup writes  *)
(* succeeded.                                                              *)
(***************************************************************************)
C8_AddAppendsAndBacksUp ==
    [][ (last'.op = "add_account" /\ last'.ok) =>
          LET n == last'.number
              P == get_claude_config(Disk)
              oauth == P.items.oauthAccount.items
          IN  /\ validate_claude_config(P).is_valid
              /\ n >= 1 /\ n \notin SeqIds(Reg)
              /\ Reg'.sequence = Append(Reg.sequence, n)
              /\ Len(Reg'.accounts) = Len(Reg.accounts) + 1
              /\ SubSeq(Reg'.accounts, 1, Len(Reg.accounts)) = Reg.accounts
              /\ Reg'.accounts[Len(Reg'.accounts)].k = str(n)
              /\ Reg'.accounts[Len(Reg'.accounts)].v.email = oauth.emailAddress
              /\ Reg'.accounts[Len(Reg'.accounts)].v.uuid = oauth.accountUuid
              /\ Reg'.accounts[Len(Reg'.accounts)].v.displayName
                     = get(oauth, "displayName", "Unknown")
              /\ Reg'.activeAccountNumber = n
              /\ configs'[n] = File(P)
              /\ credentials'[n] = File(P)
              /\ \A m \in Ids \ {n} : /\ configs'[m] = configs[m]
                                       /\ credentials'[m] = credentials[m] ]_vars

\* a second account was added from the live config of account B
C8_Witness ==
    /\ last.op = "add_account" /\ last.ok /\ last.number = 2
    /\ Reg.sequence = <<1, 2>>
    /\ Reg.activeAccountNumber = 2
    /\ DictGet(Reg.accounts, str(1), [uuid |-> ""]).uuid = "u1"
    /\ DictGet(Reg.accounts, str(2), [email |-> <<>>]).email = <<"B">>
    /\ configs[2] = File(Payload(OAuthB, 0))
    /\ configs[1] = File(Payload(OAuthA, 1))

(***************************************************************************)
(* C9: switch-next fails without any change when sequence is empty;        *)
(* otherwise its target is the first account when activeAccountNumber is   *)
(* not in sequence and the account after the active one, cyclically, when  *)
(* it is; on success activeAccountNumber is the target and the live config *)
(* is the backup payload stored for the target when the command started.   *)
(***************************************************************************)
CyclicSuccessor(seq, active) ==
    IF \E i \in 1..Len(seq) : seq[i] = active
    THEN LET i == CHOOSE j \in 1..Len(seq) :
                     seq[j] = active /\ \A h \in 1..Len(seq) : seq[h] = active => j <= h
         IN  IF i = Len(seq) THEN seq[1] ELSE seq[i + 1]
    ELSE seq[1]

C9_SwitchNextIsCircular ==
    [][ last'.op = "switch_to_next_account" =>
          IF Reg.sequence = <<>>
          THEN ~last'.ok /\ Disk' = Disk
          ELSE LET target == CyclicSuccessor(Reg.sequence, Reg.activeAccountNumber)
               IN  /\ last'.number = target
                   /\ last'.ok =>
                          ( /\ Reg'.activeAccountNumber = target
                            /\ exists(configs[target])
                            /\ get_claude_config(Disk')
                                   = load_config_file(configs[target]) ) ]_vars

\* switch-next went round from the last account to the first
C9_Witness ==
    /\ last.op = "switch_to_next_account" /\ last.ok /\ last.number = 1
    /\ Reg.sequence = <<1, 2>>
    /\ Reg.activeAccountNumber = 1
    /\ claude_config_file = File(Payload(OAuthA, 0))
    /\ configs[2] = File(Payload(OAuthB, 0))

(***************************************************************************)
(* C10: a confirmed, successful remove of ID r deletes r from sequence and *)
(* from accounts, keeps the order and the metadata of the other IDs, and   *)
(* deletes the backup files of r only; if r was active,                    *)
(* activeAccountNumber becomes the first remaining ID, or 0 when none      *)
(* remains; otherwise it is unchanged.                                     *)
(***************************************************************************)
RemovedFromRegistry(r) ==
    /\ Reg'.sequence = SelectSeq(Reg.sequence, LAMBDA n : n # r)
    /\ Reg'.accounts = SelectSeq(Reg.accounts, LAMBDA e : e.k # str(r))
    /\ Reg'.activeAccountNumber =
           IF Reg.activeAccountNumber # r THEN Reg.activeAccountNumber
           ELSE IF Reg'.sequence = <<>> THEN 0 ELSE Reg'.sequence[1]

C10_RemoveDeletesProfile ==
    [][ (last'.op = "remove_account" /\ last'.ok) =>
          LET r == last'.number
          IN  /\ InList(r, Reg.sequence)
              /\ RemovedFromRegistry(r)
              /\ configs' = [configs EXCEPT ![r] = Absent]
              /\ credentials' = [credentials EXCEPT ![r] = Absent] ]_vars

(***************************************************************************)
(* C10 as amended: the same, except that the deletion of r's backup files  *)
(* is best effort: each of the two files is deleted or, when a deletion    *)
(* fails, left as it was, and both are deleted when no deletion fails; no  *)
(* backup file of another ID changes.                                      *)
(***************************************************************************)
C10_RemoveDeletesProfileBestEffort ==
    [][ (last'.op = "remove_account" /\ last'.ok) =>
          LET r == last'.number
          IN  /\ InList(r, Reg.sequence)
              /\ RemovedFromRegistry(r)
              /\ configs'[r] \in {Absent, configs[r]}
              /\ credentials'[r] \in {Absent, credentials[r]}
              /\ mishaps' = mishaps =>
                     (configs'[r] = Absent /\ credentials'[r] = Absent)
              /\ \A m \in Ids \ {r} : /\ configs'[m] = configs[m]
                                       /\ credentials'[m] = credentials[m] ]_vars

\* the active account 1 of two was removed: account 2 is active and no
\* backup file of account 1 is left
C10_Witness ==
    /\ last.op = "remove_account" /\ last.ok /\ last.number = 1
    /\ Reg.sequence = <<2>>
    /\ Reg.activeAccountNumber = 2
    /\ ~exists(configs[1]) /\ ~exists(credentials[1])
    /\ exists(configs[2])
    /\ get_claude_config(Disk) # load_config_file(configs[2])

(***************************************************************************)
(* C11: a switch-to that fails before the apply step changes nothing:      *)
(* when the target matches no registered profile, when no backup payload   *)
(* exists for the target ID, when the user declines the                    *)
(* running-application confirmation, or when the target's backup payload   *)
(* is unreadable or fails validation, the command returns failure and the  *)
(* registry document, the live config and every backup payload are as      *)
(* before.                                                                 *)
(***************************************************************************)
MatchesNoProfile(data, target) ==
    IF isdigit(target) THEN int(target) \notin SeqIds(data)
    ELSE EmailOwners(data, target) = {}

C11_FailedSwitchChangesNothing ==
    \A target \in Targets, p \in Prompts :
        LET r == switch_to_account(Disk, target, p[1], p[2], "t0", {})
            n == r.number
        IN  ( \/ MatchesNoProfile(Reg, target)
              \/ (n \in Ids /\ ~exists(configs[n]))
              \/ (n \in Ids /\ p[1] /\ p[2] \notin {<<"y">>, <<"Y">>})
              \/ (n \in Ids /\ configs[n] = BadJson)
              \/ (n \in Ids /\ configs[n].kind = "json"
                    /\ \/ "oauthAccount" \notin DOMAIN configs[n].data.items
                       \/ {"emailAddress", "accountUuid"}
                              \ DOMAIN configs[n].data.items.oauthAccount.items # {}) )
            => (~r.ok /\ r.disk = Disk)

\* a switch from the active account 1, whose backup is older than the live
\* config, to account 2, whose backup does not validate: it failed
C11_Witness ==
    /\ last.op = "switch_to_account" /\ ~last.ok /\ last.number = 2
    /\ Reg.sequence = <<1, 2>> /\ Reg.activeAccountNumber = 1
    /\ configs[2] = File(Dict([other |-> 0]))
    /\ configs[1] = File(Payload(OAuthA, 0))
    /\ claude_config_file = File(Payload(OAuthA, 1))

(***************************************************************************)
(* C12: writes are atomic with respect to crashes: for every write the     *)
(* program makes to the registry file, to a backup file or to the live     *)
(* config, if the process stops at any step of the write, the path holds   *)
(* its previous complete document or the complete new document, never      *)
(* partial data.  So no step of the program leaves on a path it changed    *)
(* something that is not a complete document.                              *)
(***************************************************************************)
CompleteOrAsBefore(before, after) == after = before \/ after.kind # "badjson"

C12_WritesAreAtomic ==
    [][ last'.op # "host" =>
          /\ CompleteOrAsBefore(sequence_file, sequence_file')
          /\ CompleteOrAsBefore(claude_config_file, claude_config_file')
          /\ \A n \in Ids : /\ CompleteOrAsBefore(configs[n], configs'[n])
                            /\ CompleteOrAsBefore(credentials[n], credentials'[n]) ]_vars

(***************************************************************************)
(* C13: registry and backup store stay in lockstep across add-current: in  *)
(* every state left by an add-current invocation, one in which a backup    *)
(* write fails included, every ID in the persisted sequence has a stored   *)
(* backup config payload, and an add-current that reports failure has not  *)
(* left a new ID in the registry.                                          *)
(***************************************************************************)
C13_AddKeepsLockstep ==
    [][ last'.op = "add_account" =>
          /\ \A n \in SeqIds(Reg') : exists(configs'[n])
          /\ ~last'.ok => SeqIds(Reg') = SeqIds(Reg) ]_vars

(***************************************************************************)
(* C14: commands fail closed on a bad registry: if the registry file is    *)
(* not valid JSON, lacks one of the fields activeAccountNumber,            *)
(* lastUpdated, sequence, accounts, or has a wrongly typed                 *)
(* activeAccountNumber, sequence or accounts, then each of add-current,    *)
(* switch-to, switch-next and remove ends in failure without writing the   *)
(* registry file, any backup file or the live config.                      *)
(***************************************************************************)
Commands == {"add_account", "switch_to_account", "switch_to_next_account",
             "remove_account"}

C14_FailClosedOnBadRegistry ==
    [][ (~load_sequence(sequence_file).ok /\ last'.op \in Commands)
        => (~last'.ok /\ Disk' = Disk) ]_vars

\* add-current with a valid live config, on a registry from which the field
\* accounts was deleted after an account was added: it failed
C14_Witness ==
    /\ last.op = "add_account" /\ ~last.ok
    /\ sequence_file.kind = "json"
    /\ "accounts" \notin DOMAIN sequence_file.data
    /\ sequence_file.data.sequence.elems = <<1>>
    /\ exists(configs[1])
    /\ validate_claude_config(get_claude_config(Disk)).is_valid

(***************************************************************************)
(* C15: add-current rejects an unusable live config without side effects:  *)
(* when the live config is absent or empty, or has no oauthAccount         *)
(* section, or its oauthAccount is not a mapping or lacks emailAddress or  *)
(* accountUuid, add-current returns failure, allocates no ID, and leaves   *)
(* the registry document and every backup payload unchanged.               *)
(***************************************************************************)
UnusableConfig(P) ==
    \/ P.type # "dict"
    \/ DOMAIN P.items = {}
    \/ "oauthAccount" \notin DOMAIN P.items
    \/ P.items.oauthAccount.type # "dict"
    \/ "emailAddress" \notin DOMAIN P.items.oauthAccount.items
    \/ "accountUuid" \notin DOMAIN P.items.oauthAccount.items

C15_AddRejectsUnusableConfig ==
    [][ (last'.op = "add_account" /\ UnusableConfig(get_claude_config(Disk)))
        => ( /\ ~last'.ok
             /\ last'.number = 0
             /\ sequence_file' = sequence_file
             /\ configs' = configs
             /\ credentials' = credentials ) ]_vars

\* add-current failed on a live config whose oauthAccount has no
\* accountUuid, with account 1 registered
C15_Witness ==
    /\ last.op = "add_account" /\ ~last.ok /\ last.number = 0
    /\ claude_config_file = File(Payload(Dict([emailAddress |-> <<"a">>]), 0))
    /\ Reg.sequence = <<1>>
    /\ exists(configs[1])

(***************************************************************************)
(* C16: registry round trip: for every registry document that passes the   *)
(* save validation (the four required fields present, integer              *)
(* activeAccountNumber, list sequence, mapping accounts with string keys), *)
(* saving it and then loading it returns a document equal to the one       *)
(* saved.                                                                  *)
(***************************************************************************)
StringKeys(data) ==
    \A i \in 1..Len(data.accounts.pairs) : data.accounts.pairs[i].k.type = "str"

C16_RegistryRoundTrip ==
    (last.op = "load_sequence" /\ StringKeys(last.data))
        => (last.ok /\ last.loaded = last.data)

\* a registry of two accounts, the second of them active, was saved and
\* loaded
C16_Witness ==
    /\ last.op = "load_sequence" /\ last.ok
    /\ last.data.activeAccountNumber = JInt(2)
    /\ last.data.sequence = JList(<<1, 2>>)
    /\ Len(last.data.accounts.pairs) = 2
    /\ StringKeys(last.data)
    /\ last.loaded = last.data

\* with an integer key in accounts the document read back is another one
IntegerKeysComeBackAsStrings ==
    (last.op = "load_sequence" /\ ~StringKeys(last.data))
        => (last.ok /\ last.loaded # last.data /\ StringKeys(last.loaded))

(***************************************************************************)
(* C17: the failure of a best-effort step does not change the outcome of   *)
(* the command: if the backup of the outgoing active profile fails during  *)
(* switch-to, the switch still writes the target payload to the live       *)
(* config, sets activeAccountNumber to the target and returns success; if  *)
(* deleting the backup files fails during remove, the registry is still    *)
(* persisted without the removed ID and remove returns success; in both    *)
(* cases accounts keys = set of sequence and the active ID is 0 or in      *)
(* sequence.                                                               *)
(***************************************************************************)
RegistryInvariants(file) ==
    /\ load_sequence(file).ok
    /\ LET data == load_sequence(file).data
       IN  /\ SeqIds(data) = KeyIds(data)
           /\ data.activeAccountNumber = 0
                \/ InList(data.activeAccountNumber, data.sequence)

C17_BestEffortFailuresAreHarmless ==
    /\ \A target \in Targets, p \in Prompts, f \in {"configs", "credentials"} :
           LET r0 == switch_to_account(Disk, target, p[1], p[2], "t0", {})
               r == switch_to_account(Disk, target, p[1], p[2], "t0", {f})
               T == r0.number
           IN  r0.ok =>
                   /\ r.ok /\ r.number = T
                   /\ r.disk.claude_config_file = configs[T]
                   /\ load_sequence(r.disk.sequence_file).data.activeAccountNumber = T
                   /\ RegistryInvariants(r.disk.sequence_file)
    /\ \A target \in Targets, response \in Responses,
          f \in {"unlink_config", "unlink_credentials"} :
           LET r0 == remove_account(Disk, target, response, "t0", {})
               r == remove_account(Disk, target, response, "t0", {f})
           IN  r0.ok =>
                   /\ r.ok /\ r.number = r0.number
                   /\ r.disk.sequence_file = r0.disk.sequence_file
                   /\ r.number \notin SeqIds(load_sequence(r.disk.sequence_file).data)
                   /\ RegistryInvariants(r.disk.sequence_file)

\* the switch from account 1 to account 2 succeeded although the config
\* copy of the outgoing account 1 could not be written: that copy is the
\* old one, the credentials copy the new one
C17_Witness ==
    /\ last.op = "switch_to_account" /\ last.ok /\ last.number = 2
    /\ mishaps = MaxMishaps
    /\ Reg.sequence = <<1, 2>> /\ Reg.activeAccountNumber = 2
    /\ configs[1] = File(Payload(OAuthA, 0))
    /\ credentials[1] = File(Payload(OAuthA, 1))
    /\ claude_config_file = File(Payload(OAuthB, 0))

(***************************************************************************)
(* C18: remove changes nothing unless the target resolves and the user     *)
(* confirms: when the target matches no registered profile, or when the    *)
(* answer to the confirmation prompt is anything other than 'y' in either  *)
(* case, remove returns failure and the registry document and every backup *)
(* file are as before; the registry is never written before the            *)
(* confirmation is given.                                                  *)
(***************************************************************************)
C18_RemoveNeedsTargetAndConfirmation ==
    \A target \in Targets, response \in Responses :
        LET r == remove_account(Disk, target, response, "t0", {})
        IN  (MatchesNoProfile(Reg, target) \/ response \notin {<<"y">>, <<"Y">>})
                => (~r.ok /\ r.disk = Disk)

\* the removal of account 1 of two was not confirmed: account 1 and its
\* backup files are still there
C18_Witness ==
    /\ last.op = "remove_account" /\ ~last.ok /\ last.number = 1
    /\ last.target = str(1)
    /\ Reg.sequence = <<1, 2>>
    /\ str(1) \in DictKeys(Reg.accounts)
    /\ exists(configs[1]) /\ exists(credentials[1])
    /\ mishaps = 0

(***************************************************************************)
(* C19: backup payloads stay bound to their profile: in every state        *)
(* reached by add-current, switch-to, switch-next and remove in which each *)
(* external change of the live config's identity is followed by            *)
(* add-current before any other command, for every ID in sequence that has *)
(* a backup payload, the emailAddress and accountUuid of that payload      *)
(* equal the email and uuid recorded in the registry metadata of the same  *)
(* ID.  Stated for the runs in which no write failed.                      *)
(***************************************************************************)
C19_BackupBoundToProfile ==
    mishaps = 0 =>
        \A n \in SeqIds(Reg) :
            configs[n].kind = "json" =>
                LET oauth == configs[n].data.items.oauthAccount.items
                    meta == DictGet(Reg.accounts, str(n), [email |-> <<>>, uuid |-> ""])
                IN  /\ oauth.emailAddress = meta.email
                    /\ oauth.accountUuid = meta.uuid

(***************************************************************************)
(* C20: the active pointer and the live config agree after remove: after   *)
(* every successful remove that leaves activeAccountNumber = a with        *)
(* a # 0, the accountUuid of the live config equals the uuid in the        *)
(* registry metadata of a.  Stated for a remove, with no write failing,    *)
(* of the active profile, in a state where pointer and live config agreed. *)
(***************************************************************************)
LiveUuid(d) ==
    LET P == get_claude_config(d)
    IN  IF validate_claude_config(P).is_valid
        THEN P.items.oauthAccount.items.accountUuid ELSE ""

ActiveUuid(data) ==
    DictGet(data.accounts, str(data.activeAccountNumber), [uuid |-> "none"]).uuid

C20_LiveConfigFollowsRemove ==
    [][ ( /\ last'.op = "remove_account" /\ last'.ok
          /\ mishaps' = 0
          /\ Reg.activeAccountNumber = last'.number
          /\ LiveUuid(Disk) = ActiveUuid(Reg)
          /\ Reg'.activeAccountNumber # 0 )
        => LiveUuid(Disk') = ActiveUuid(Reg') ]_vars

(***************************************************************************)
(* C21: switch-next is a full cycle: in any reachable state with sequence  *)
(* of length n >= 1, activeAccountNumber in sequence, a valid backup for   *)
(* every ID and no external change of the live config, n consecutive       *)
(* successful switch-next invocations make every ID of sequence active     *)
(* exactly once and end with activeAccountNumber and the live config       *)
(* payload equal to their values before the first invocation, with         *)
(* sequence and accounts unchanged.  Stated for the states that the        *)
(* commands themselves leave, no write having failed and no login waiting  *)
(* for its add-current.                                                    *)
(***************************************************************************)
RECURSIVE SwitchNextTimes(_, _)
SwitchNextTimes(d, k) ==
    IF k = 0 THEN [disk |-> d, ok |-> TRUE, visited |-> <<>>]
    ELSE LET c == SwitchNextTimes(d, k - 1)
             r == switch_to_next_account(c.disk, FALSE, <<"n">>, "t0", {})
         IN  [disk |-> r.disk, ok |-> c.ok /\ r.ok,
              visited |-> Append(c.visited, r.number)]

C21_SwitchNextIsFullCycle ==
    ( /\ mishaps = 0 /\ ~Pending
      /\ Len(Reg.sequence) >= 1
      /\ InList(Reg.activeAccountNumber, Reg.sequence)
      /\ \A n \in SeqIds(Reg) :
             /\ configs[n].kind = "json"
             /\ validate_claude_config(configs[n].data).is_valid )
    => LET c == SwitchNextTimes(Disk, Len(Reg.sequence))
           after == load_sequence(c.disk.sequence_file).data
       IN  c.ok =>
               /\ \A n \in SeqIds(Reg) :
                      Cardinality({i \in 1..Len(c.visited) : c.visited[i] = n}) = 1
               /\ after.activeAccountNumber = Reg.activeAccountNumber
               /\ get_claude_config(c.disk) = get_claude_config(Disk)
               /\ after.sequence = Reg.sequence
               /\ after.accounts = Reg.accounts

(***************************************************************************)
(* C22.  As claimed: when two add-current invocations interleave at their  *)
(* file reads and writes, every registry document written has a            *)
(* duplicate-free sequence whose ID set equals the integer-converted keys  *)
(* of accounts.                                                            *)
(***************************************************************************)
C22_ConcurrentAddsKeepStructure ==
    /\ load_sequence(sequence_file).ok
    /\ \A i, j \in 1..Len(Reg.sequence) : Reg.sequence[i] = Reg.sequence[j] => i = j
    /\ SeqIds(Reg) = KeyIds(Reg)

(***************************************************************************)
(* C22, as the code has it.  When two add-current invocations interleave   *)
(* at their file reads and writes, every registry document written loads,  *)
(* every ID of its sequence is at least 1, no key of accounts occurs       *)
(* twice, and the ID set of sequence equals the integer-converted keys of  *)
(* accounts; sequence itself can hold an ID twice.                         *)
(***************************************************************************)
C22_ConcurrentAddsKeepKeys ==
    /\ load_sequence(sequence_file).ok
    /\ \A i \in 1..Len(Reg.sequence) : Reg.sequence[i] >= 1
    /\ \A i, j \in 1..Len(Reg.accounts) : Reg.accounts[i].k = Reg.accounts[j].k => i = j
    /\ SeqIds(Reg) = KeyIds(Reg)

\* both invocations have returned and left the same ID twice in sequence
C22_Witness ==
    /\ \A p \in Invocations : invocations[p].pc = "none"
    /\ last.op = "add_account" /\ last.ok
    /\ Reg.sequence = <<1, 1>>
    /\ KeyIds(Reg) = {1}


(***************************************************************************)
(* C23.  A read tries utf-8, utf-8-sig, latin-1, cp1252 in this order and  *)
(* returns the document parsed under the first encoding under which the    *)
(* file both decodes and parses as JSON; it fails only when the file does  *)
(* so under no candidate encoding.                                         *)
(***************************************************************************)
Working(b) ==
    {i \in 1..Len(encodings_to_try) :
        /\ decode(b, encodings_to_try[i]).ok
        /\ json_loads(decode(b, encodings_to_try[i]).text).ok}

C23_FirstWorkingEncodingWins ==
    /\ last.op = "load_config_file" =>
           LET w == Working(last.file.bytes)
               first == CHOOSE i \in w : \A j \in w : i <= j
           IN  IF w = {} THEN last.returned = None
               ELSE last.returned =
                        json_loads(decode(last.file.bytes, encodings_to_try[first]).text).data
    /\ (last.op = "load_sequence"
            /\ last.err \in {"JSONDecodeError", "UnicodeDecodeError"}) =>
           Working(last.file.bytes) = {}

====
